---- MODULE Spec2Model ----
(***************************************************************************)
(* A model of anonymizer.py: the TIFF/BigTIFF directory parser (TiffFile,  *)
(* TiffDirectory, TiffEntry), the label redaction delete_aperio_label, and *)
(* the batch loop of __main__.  The file is a sequence of bytes (0..255),  *)
(* byte k of the file being element k+1 of the sequence; every integer is  *)
(* decoded from and encoded into bytes with the file's byte order and the  *)
(* width its struct format gives it.                                      *)
(***************************************************************************)
EXTENDS Integers, Sequences, FiniteSets, TLC

(***************************************************************************)
(* Program constants (anonymizer.py:28-35).                                *)
(***************************************************************************)
ASCII == 2
SHORT == 3
LONG == 4
LONG8 == 16

IMAGE_DESCRIPTION == 270
STRIP_OFFSETS == 273
STRIP_BYTE_COUNTS == 279

\* The header's version numbers and the BigTIFF offset size (lines 53-58).
VERSION_CLASSIC == 42
VERSION_BIG == 43
BIG_MAGIC2 == 8

\* The literals of the match heuristic, as bytes: 'Aperio' (line 157) and
\* 'label ' (line 161); 'II' and 'MM' (lines 43, 45); '\0' (lines 141, 176).
STR_APERIO == <<65, 112, 101, 114, 105, 111>>
STR_LABEL == <<108, 97, 98, 101, 108, 32>>
STR_II == <<73, 73>>
STR_MM == <<77, 77>>
NUL == 0
LF == 10
CR == 13

(***************************************************************************)
(* Bounds of the model.                                                    *)
(***************************************************************************)
\* Directories per input file (and directory records the walker keeps).
MaxDirs == 3
\* Elements of a StripOffsets / StripByteCounts value.
MaxStrips == 2

(***************************************************************************)
(* Sequences of bytes.                                                     *)
(***************************************************************************)
\* The element of a set of one element.  Only({e(x) : x \in {v}}) is e of
\* the value v: v is worked out once, however often e uses it.
Only(S) == CHOOSE x \in S : TRUE

Min(a, b) == IF a <= b THEN a ELSE b

Max(a, b) == IF a >= b THEN a ELSE b

Reverse(s) == [k \in 1..Len(s) |-> s[Len(s) + 1 - k]]

\* A faulty '\0' * length: one byte too many.
Zeros_one_more(n) == [k \in 1..(n + 1) |-> NUL]

\* '\0' * n (line 176).
Zeros(n) == [k \in 1..n |-> NUL]

RECURSIVE Concat(_)
Concat(ss) == IF ss = <<>> THEN <<>> ELSE Head(ss) \o Concat(Tail(ss))

\* The sum of the first k elements of t, and of all the elements of s.
RECURSIVE SumTo(_, _)
SumTo(t, k) == IF k = 0 THEN 0 ELSE t[k] + SumTo(t, k - 1)

SumSeq(s) == Only({SumTo(t, Len(t)) : t \in {s}})

\* str.startswith
StartsWith(s, p) == Len(s) >= Len(p) /\ SubSeq(s, 1, Len(p)) = p

\* str.splitlines of a byte string: a line ends at LF, CR or CR LF; the text
\* after the last line end is a line only when it is not empty.
RECURSIVE SplitFrom(_, _, _, _)
SplitFrom(s, k, cur, acc) ==
    IF k > Len(s)
    THEN IF cur = <<>> THEN acc ELSE Append(acc, cur)
    ELSE IF s[k] = LF
         THEN SplitFrom(s, k + 1, <<>>, Append(acc, cur))
         ELSE IF s[k] = CR
              THEN IF k < Len(s) /\ s[k + 1] = LF
                   THEN SplitFrom(s, k + 2, <<>>, Append(acc, cur))
                   ELSE SplitFrom(s, k + 1, <<>>, Append(acc, cur))
              ELSE SplitFrom(s, k + 1, Append(cur, s[k]), acc)

splitlines(s) == SplitFrom(s, 1, <<>>, <<>>)

(***************************************************************************)
(* file.read, file.write at a position.                                    *)
(***************************************************************************)
\* file.read(n) at position pos: the bytes there, fewer than n at the end.
FileRead(f, pos, n) ==
    IF pos >= Len(f) \/ n = 0 THEN <<>>
    ELSE SubSeq(f, pos + 1, Min(pos + n, Len(f)))

\* file.write(bytes) at position pos: overwrites in place, grows the file at
\* its end and fills a gap past the end with zero bytes; writing nothing
\* changes nothing.
FileWrite(f, pos, bytes) ==
    IF bytes = <<>> THEN f
    ELSE [k \in 1..Max(Len(f), pos + Len(bytes)) |->
            IF k > pos /\ k <= pos + Len(bytes) THEN bytes[k - pos]
            ELSE IF k <= Len(f) THEN f[k] ELSE NUL]

(***************************************************************************)
(* struct formats.  A format is a sequence of format characters; the       *)
(* prefix '<' or '>' is the byte order.                                    *)
(***************************************************************************)
\* TiffFile._convert_format: y Y z Z become q Q q Q on BigTIFF, h H i I else.
ConvertChar(bigtiff, c) ==
    IF c = "Y" THEN (IF bigtiff THEN "Q" ELSE "H")
    ELSE IF c = "Z" THEN (IF bigtiff THEN "Q" ELSE "I")
    ELSE IF c = "y" THEN (IF bigtiff THEN "q" ELSE "h")
    ELSE IF c = "z" THEN (IF bigtiff THEN "q" ELSE "i")
    ELSE c

_convert_format(bigtiff, fmt) == [k \in 1..Len(fmt) |-> ConvertChar(bigtiff, fmt[k])]

\* struct.calcsize of one format character (standard sizes, no alignment).
CharSize(c) ==
    IF c = "c" THEN 1
    ELSE IF c \in {"H", "h"} THEN 2
    ELSE IF c \in {"I", "i"} THEN 4
    ELSE 8

calcsize(fmt) == SumSeq([k \in 1..Len(fmt) |-> CharSize(fmt[k])])

\* TiffFile.fmt_size
fmt_size(bigtiff, fmt) == Only({calcsize(cf) : cf \in {_convert_format(bigtiff, fmt)}})

\* An unsigned integer of a byte string, least significant byte first.
RECURSIVE DecodeLE(_)
DecodeLE(bytes) ==
    IF bytes = <<>> THEN 0 ELSE Head(bytes) + 256 * DecodeLE(Tail(bytes))

RECURSIVE EncodeLE(_, _)
EncodeLE(v, w) ==
    IF w = 0 THEN <<>> ELSE <<v % 256>> \o EncodeLE(v \div 256, w - 1)

\* struct.unpack of one item: 'c' is the byte itself.
UnpackItem(prefix, c, bytes) ==
    IF c = "c" THEN bytes[1]
    ELSE IF prefix = "<" THEN DecodeLE(bytes)
    ELSE DecodeLE(Reverse(bytes))

\* struct.pack of one item.
PackItem(prefix, c, v) ==
    IF c = "c" THEN <<v>>
    ELSE IF prefix = "<" THEN EncodeLE(v, CharSize(c))
    ELSE Reverse(EncodeLE(v, CharSize(c)))

\* Where item k of a format starts in the bytes it takes.
StartOf(fmt, k) == SumSeq([j \in 1..(k - 1) |-> CharSize(fmt[j])])

\* struct.unpack of the items of a format, from the bytes it takes.
UnpackAll(prefix, fmt, bytes) ==
    [k \in 1..Len(fmt) |->
        UnpackItem(prefix, fmt[k],
                   SubSeq(bytes, StartOf(fmt, k) + 1,
                          StartOf(fmt, k) + CharSize(fmt[k])))]

\* struct.unpack(fmt, bytes) of the bytes read at position pos: ok is FALSE
\* when there are fewer bytes than the format takes (struct.error); end is
\* the position after the read.
unpack(prefix, cf, pos, bytes) ==
    IF Len(bytes) # calcsize(cf)
    THEN [ok |-> FALSE, vals |-> <<>>, end |-> pos + Len(bytes)]
    ELSE [ok |-> TRUE, vals |-> UnpackAll(prefix, cf, bytes), end |-> pos + Len(bytes)]

\* Line 90: self.read(struct.calcsize(fmt)), unpacked.
ReadConverted(f, pos, prefix, cf) ==
    Only({unpack(prefix, cf, pos, bytes) : bytes \in {FileRead(f, pos, calcsize(cf))}})

\* TiffFile.read_fmt(fmt, force_list=True) at position pos.
read_fmt(f, pos, prefix, bigtiff, fmt) ==
    Only({ReadConverted(f, pos, prefix, cf) : cf \in {_convert_format(bigtiff, fmt)}})

\* A faulty write_fmt: the value is packed least significant byte first
\* whatever the file's byte order.
write_fmt_little(f, pos, prefix, bigtiff, fmt, v) ==
    Only({FileWrite(f, pos, bytes) :
            bytes \in {PackItem("<", _convert_format(bigtiff, fmt)[1], v)}})

\* TiffFile.write_fmt(fmt, v) of one value at position pos.
write_fmt(f, pos, prefix, bigtiff, fmt, v) ==
    Only({FileWrite(f, pos, bytes) :
            bytes \in {PackItem(prefix, _convert_format(bigtiff, fmt)[1], v)}})

(***************************************************************************)
(* Outcomes of one file's redaction.  "done" is success; the others are    *)
(* the exceptions the code raises: IOError('Not a TIFF file') and          *)
(* IOError('Bad BigTIFF header') are FormatError, struct.error on a short  *)
(* read is Truncated, ValueError('Unsupported type') is                    *)
(* UnsupportedValueType, ValueError('String not null-terminated') is       *)
(* MalformedString, IOError('Label is not stripped') is MissingStripInfo,  *)
(* IOError("Couldn't find Aperio label directory") is LabelNotFound;       *)
(* IndexError, AttributeError and TypeError are the interpreter's own.     *)
(***************************************************************************)
(***************************************************************************)
(* TiffFile.__init__, lines 41-61: the header.  err is "none" or the       *)
(* failure; prefix is the byte order, bigtiff the width class, pos the     *)
(* position the directory walk starts at.                                  *)
(***************************************************************************)
Header(err, prefix, big, pos) ==
    [err |-> err, prefix |-> prefix, bigtiff |-> big, pos |-> pos]

\* Lines 57-59: magic2 and reserved of a BigTIFF header.
BigHeader(prefix, r) ==
    IF ~r.ok THEN Header("Truncated", prefix, TRUE, r.end)
    ELSE IF r.vals[1] # BIG_MAGIC2 \/ r.vals[2] # 0
         THEN Header("FormatError", prefix, TRUE, r.end)
         ELSE Header("none", prefix, TRUE, r.end)

\* Lines 51-61: the version.
VersionHeader(f, prefix, ver) ==
    IF ~ver.ok THEN Header("Truncated", prefix, FALSE, ver.end)
    ELSE IF ver.vals[1] = VERSION_CLASSIC THEN Header("none", prefix, FALSE, ver.end)
    ELSE IF ver.vals[1] = VERSION_BIG
         THEN BigHeader(prefix, read_fmt(f, ver.end, prefix, TRUE, <<"H", "H">>))
         ELSE Header("FormatError", prefix, FALSE, ver.end)

\* Lines 42-48: the byte order.
EndianHeader(f, endian) ==
    IF endian = STR_II
    THEN VersionHeader(f, "<", read_fmt(f, Len(endian), "<", FALSE, <<"H">>))
    ELSE IF endian = STR_MM
         THEN VersionHeader(f, ">", read_fmt(f, Len(endian), ">", FALSE, <<"H">>))
         ELSE Header("FormatError", "<", FALSE, Len(endian))

ReadHeader(f) == EndianHeader(f, FileRead(f, 0, 2))

(***************************************************************************)
(* TiffEntry.__init__ and TiffDirectory.__init__.                          *)
(***************************************************************************)
\* One entry read at position pos: tag, type, count, value_offset, read as
\* 'HHZZ'.  The entry keeps the bytes of the value slot; value_offset is
\* their integer, decoded where the code uses it.
EntryRead(pos, r, slot, slotSize) ==
    IF ~r.ok THEN [ok |-> FALSE, end |-> r.end]
    ELSE IF Len(slot) # slotSize THEN [ok |-> FALSE, end |-> r.end + Len(slot)]
    ELSE [ok |-> TRUE, end |-> r.end + Len(slot),
          entry |-> [start |-> pos, tag |-> r.vals[1], type |-> r.vals[2],
                     count |-> r.vals[3], slot |-> slot]]

TiffEntry(f, pos, prefix, bigtiff) ==
    Only({EntryRead(pos, r, FileRead(f, r.end, fmt_size(bigtiff, <<"Z">>)),
                    fmt_size(bigtiff, <<"Z">>)) :
            r \in {read_fmt(f, pos, prefix, bigtiff, <<"H", "H", "Z">>)}})

value_offset(prefix, bigtiff, entry) ==
    UnpackItem(prefix, ConvertChar(bigtiff, "Z"), entry.slot)

\* self.entries[entry.tag] = entry: a later entry of the same tag replaces
\* the earlier one.
DictPut(d, key, val) ==
    [k \in (DOMAIN d) \cup {key} |-> IF k = key THEN val ELSE d[k]]

\* The loop of TiffDirectory.__init__: n entries from position pos.
RECURSIVE ReadEntries(_, _, _, _, _, _)
RECURSIVE EntriesAfter(_, _, _, _, _, _)
ReadEntries(f, pos, prefix, bigtiff, n, acc) ==
    IF n = 0 THEN [ok |-> TRUE, end |-> pos, entries |-> acc]
    ELSE Only({EntriesAfter(f, prefix, bigtiff, n, a, e) :
                 a \in {acc}, e \in {TiffEntry(f, pos, prefix, bigtiff)}})

EntriesAfter(f, prefix, bigtiff, n, acc, e) ==
    IF ~e.ok THEN [ok |-> FALSE, end |-> e.end, entries |-> acc]
    ELSE ReadEntries(f, e.end, prefix, bigtiff, n - 1,
                     DictPut(acc, e.entry.tag, e.entry))

\* A directory read at position pos, reached through the pointer slot at
\* in_pointer_offset.
DirectoryOf(pos, in_pointer_offset, es) ==
    IF ~es.ok THEN [ok |-> FALSE, end |-> es.end]
    ELSE [ok |-> TRUE, end |-> es.end,
          dir |-> [offset |-> pos,
                   in_pointer_offset |-> in_pointer_offset,
                   entries |-> es.entries,
                   out_pointer_offset |-> es.end]]

DirectoryAfterCount(f, pos, prefix, bigtiff, in_pointer_offset, count) ==
    IF ~count.ok THEN [ok |-> FALSE, end |-> count.end]
    ELSE Only({DirectoryOf(pos, in_pointer_offset, es) :
                 es \in {ReadEntries(f, count.end, prefix, bigtiff, count.vals[1],
                                     <<>>)}})

TiffDirectory(f, pos, prefix, bigtiff, in_pointer_offset) ==
    Only({DirectoryAfterCount(f, pos, prefix, bigtiff, in_pointer_offset, count) :
            count \in {read_fmt(f, pos, prefix, bigtiff, <<"Y">>)}})

(***************************************************************************)
(* TiffEntry.value.                                                        *)
(***************************************************************************)
\* The item format of a type code; "" is ValueError('Unsupported type').
ItemFmt(type) ==
    IF type = ASCII THEN "c"
    ELSE IF type = SHORT THEN "H"
    ELSE IF type = LONG THEN "I"
    ELSE IF type = LONG8 THEN "Q"
    ELSE ""

\* Whether the value lies in the entry's own value slot (line 133).
IsInline(bigtiff, len) == len <= fmt_size(bigtiff, <<"Z">>)

\* Where the value is read from (lines 133-138).
ValuePos(prefix, bigtiff, entry, len) ==
    IF IsInline(bigtiff, len)
    THEN entry.start + fmt_size(bigtiff, <<"H", "H", "Z">>)
    ELSE value_offset(prefix, bigtiff, entry)

Value(err, text, val, end, items) ==
    [err |-> err, text |-> text, val |-> val, end |-> end, items |-> items]

\* What lines 140-145 make of the items read: the text of an ASCII value
\* without its terminator, the items of a numeric one.  items[-1] of an
\* empty tuple is an IndexError.
Terminated(type, items, end) ==
    IF type # ASCII THEN Value("none", FALSE, items, end, items)
    ELSE IF items = <<>> THEN Value("IndexError", TRUE, <<>>, end, items)
    ELSE IF items[Len(items)] # NUL THEN Value("MalformedString", TRUE, <<>>, end, items)
    ELSE Value("none", TRUE, SubSeq(items, 1, Len(items) - 1), end, items)

ValueRead(type, r) ==
    IF ~r.ok THEN Value("Truncated", FALSE, <<>>, r.end, <<>>)
    ELSE Terminated(type, r.vals, r.end)

\* Lines 131-139: the format '%d%s' % (count, item_fmt), read where it lies.
ValueAt(f, prefix, bigtiff, entry, fmt, at) ==
    Only({ValueRead(entry.type, r) : r \in {read_fmt(f, at, prefix, bigtiff, fmt)}})

ValueOfFmt(f, prefix, bigtiff, entry, fmt) ==
    Only({ValueAt(f, prefix, bigtiff, entry, fmt, at) :
            at \in {ValuePos(prefix, bigtiff, entry, fmt_size(bigtiff, fmt))}})

value(f, prefix, bigtiff, entry, pos) ==
    IF ItemFmt(entry.type) = ""
    THEN Value("UnsupportedValueType", FALSE, <<>>, pos, <<>>)
    ELSE Only({ValueOfFmt(f, prefix, bigtiff, entry, fmt) :
                 fmt \in {[k \in 1..entry.count |-> ItemFmt(entry.type)]}})

(***************************************************************************)
(* The match heuristic of delete_aperio_label, lines 157-163.              *)
(***************************************************************************)
\* Line 161, negated: there is a second line and it starts with 'label '.
SecondLineIsLabel(lines) == ~(Len(lines) < 2 \/ ~StartsWith(lines[2], STR_LABEL))

IsLabel(desc) ==
    /\ StartsWith(desc, STR_APERIO)
    /\ \E lines \in {splitlines(desc)} : SecondLineIsLabel(lines)

\* A faulty zip: the last pair is lost.
zip_short(xs, ys) ==
    [k \in 1..(Min(Len(xs), Len(ys)) - 1) |-> [offset |-> xs[k], length |-> ys[k]]]

\* zip(offsets, lengths): pairs by position, as many as the shorter has.
zip(xs, ys) ==
    [k \in 1..Min(Len(xs), Len(ys)) |-> [offset |-> xs[k], length |-> ys[k]]]

(***************************************************************************)
(* One turn of the directory loop of TiffFile.__init__, lines 65-71, with  *)
(* the cursor at pos: "end" when the pointer read is 0, "dir" with the     *)
(* directory read at the offset it holds, "fail" on a short read.          *)
(***************************************************************************)
WalkDirectory(d) ==
    IF ~d.ok THEN [kind |-> "fail", pos |-> d.end]
    ELSE [kind |-> "dir", pos |-> d.end, dir |-> d.dir]

WalkPointer(f, in_pointer_offset, prefix, bigtiff, r) ==
    IF ~r.ok THEN [kind |-> "fail", pos |-> r.end]
    ELSE IF r.vals[1] = 0 THEN [kind |-> "end", pos |-> r.end]
    ELSE Only({WalkDirectory(d) :
                 d \in {TiffDirectory(f, r.vals[1], prefix, bigtiff, in_pointer_offset)}})

WalkOnce(f, pos, prefix, bigtiff) ==
    Only({WalkPointer(f, pos, prefix, bigtiff, r) :
            r \in {read_fmt(f, pos, prefix, bigtiff, <<"Z">>)}})

\* The whole loop, for at most fuel directories: the directories a walk of
\* file f from the pointer slot at pos yields, in order.
RECURSIVE WalkChain(_, _, _, _, _)
RECURSIVE ChainAfter(_, _, _, _, _)
WalkChain(f, pos, prefix, bigtiff, fuel) ==
    IF fuel = 0 THEN <<>>
    ELSE Only({ChainAfter(f, prefix, bigtiff, fuel, w) :
                 w \in {WalkOnce(f, pos, prefix, bigtiff)}})

ChainAfter(f, prefix, bigtiff, fuel, w) ==
    IF w.kind # "dir" THEN <<>>
    ELSE <<w.dir>> \o WalkChain(f, w.pos, prefix, bigtiff, fuel - 1)

(***************************************************************************)
(* The body of the loop of delete_aperio_label for one directory, lines    *)
(* 152-171: "continue" (not the label), "raise" (with the failure) or      *)
(* "match" (with the decoded strip offsets and lengths).  last is the      *)
(* value() call made last.                                                 *)
(***************************************************************************)
NoValue == [err |-> "none", text |-> FALSE, val |-> <<>>, end |-> 0, items |-> <<>>]

NoCall == [called |-> FALSE, tag |-> 0, type |-> 0, err |-> "none", items |-> <<>>]

Call(entry, v) ==
    [called |-> TRUE, tag |-> entry.tag, type |-> entry.type, err |-> v.err,
     items |-> v.items]

ScanResult(res, err, pos, last, offsets, lengths) ==
    [res |-> res, err |-> err, pos |-> pos, last |-> last,
     offsets |-> offsets, lengths |-> lengths]

\* A faulty raise: the failure is noted and the redaction goes on as if the
\* directory had matched.
Raise_on(err, entry, v) == ScanResult("match", err, v.end, Call(entry, v), NoValue, NoValue)

Raise(err, entry, v) == ScanResult("raise", err, v.end, Call(entry, v), NoValue, NoValue)

\* Line 168 on: StripByteCounts decoded.
ScanLengths(le, offsets, lengths) ==
    IF lengths.err # "none" THEN Raise(lengths.err, le, lengths)
    ELSE ScanResult("match", "none", lengths.end, Call(le, lengths), offsets, lengths)

\* Lines 167-168: StripOffsets decoded, StripByteCounts looked up.
ScanOffsets(f, prefix, bigtiff, es, oe, offsets) ==
    IF offsets.err # "none" THEN Raise(offsets.err, oe, offsets)
    ELSE IF STRIP_BYTE_COUNTS \notin DOMAIN es
    THEN Raise("MissingStripInfo", oe, offsets)
    ELSE Only({ScanLengths(es[STRIP_BYTE_COUNTS], offsets, lengths) :
                 lengths \in {value(f, prefix, bigtiff, es[STRIP_BYTE_COUNTS],
                                   offsets.end)}})

\* Lines 157-167: the description decoded, StripOffsets looked up.
ScanDescription(f, prefix, bigtiff, es, de, desc) ==
    IF desc.err # "none" THEN Raise(desc.err, de, desc)
    ELSE IF ~desc.text THEN Raise("AttributeError", de, desc)
    ELSE IF ~IsLabel(desc.val)
    THEN ScanResult("continue", "none", desc.end, Call(de, desc), NoValue, NoValue)
    ELSE IF STRIP_OFFSETS \notin DOMAIN es THEN Raise("MissingStripInfo", de, desc)
    ELSE Only({ScanOffsets(f, prefix, bigtiff, es, es[STRIP_OFFSETS], offsets) :
                 offsets \in {value(f, prefix, bigtiff, es[STRIP_OFFSETS], desc.end)}})

\* Lines 153-156: the description looked up.
ScanDir(f, prefix, bigtiff, directory, pos) ==
    IF IMAGE_DESCRIPTION \notin DOMAIN directory.entries
    THEN ScanResult("continue", "none", pos, NoCall, NoValue, NoValue)
    ELSE Only({ScanDescription(f, prefix, bigtiff, directory.entries,
                                directory.entries[IMAGE_DESCRIPTION], desc) :
                 desc \in {value(f, prefix, bigtiff,
                                 directory.entries[IMAGE_DESCRIPTION], pos)}})

(***************************************************************************)
(* The input files.  A file is laid out as: header, one slice of image     *)
(* data per directory, the directories in chain order, the out-of-line     *)
(* values.  p describes it: byte order, width class, the kind of each      *)
(* directory, the element counts of a label's StripOffsets and             *)
(* StripByteCounts, and what is wrong with it (variant).                   *)
(***************************************************************************)
STR_MACRO == <<109, 97, 99, 114, 111, 32>>

DescLabel == STR_APERIO \o <<LF>> \o STR_LABEL \o <<NUL>>

DescLabelCrLf == STR_APERIO \o <<CR, LF>> \o STR_LABEL \o <<NUL>>

DescMacro == STR_APERIO \o <<LF>> \o STR_MACRO \o <<NUL>>

DescOneLine == STR_APERIO \o <<NUL>>

DescForeign == <<120, NUL>>

DescNoTerm == STR_APERIO \o <<LF>> \o STR_LABEL

\* Bytes of image data a directory owns: room for strips of 1, 2, ... bytes.
SliceSize == (MaxStrips * (MaxStrips + 1)) \div 2

HeaderSize(p) == 4 + (IF p.bigtiff THEN 4 ELSE 0) + fmt_size(p.bigtiff, <<"Z">>)

SliceBase(p, d) == HeaderSize(p) + (d - 1) * SliceSize

PackSeq(prefix, c, vals) == Concat([k \in 1..Len(vals) |-> PackItem(prefix, c, vals[k])])

\* Strip k of directory d: k bytes, the strips back to back in d's slice.
StripOffsetsOf(p, d, n) == [k \in 1..n |-> SliceBase(p, d) + ((k - 1) * k) \div 2]

StripLengthsOf(n) == [k \in 1..n |-> k]

EntrySpec(tag, type, count, payload) ==
    [tag |-> tag, type |-> type, count |-> count, payload |-> payload]

TextSpec(tag, bytes) == EntrySpec(tag, ASCII, Len(bytes), bytes)

OffsetsSpec(p, d, n) ==
    EntrySpec(STRIP_OFFSETS, IF p.bigtiff THEN LONG8 ELSE LONG, n,
              PackSeq(p.prefix, IF p.bigtiff THEN "Q" ELSE "I", StripOffsetsOf(p, d, n)))

LengthsSpec(p, n) ==
    EntrySpec(STRIP_BYTE_COUNTS, SHORT, n, PackSeq(p.prefix, "H", StripLengthsOf(n)))

WidthSpec(p) == EntrySpec(256, SHORT, 1, PackItem(p.prefix, "H", 1))

\* The entries of a directory of kind k whose strip entries are strips.
SpecsOfKind(p, d, k, strips) ==
    CASE k = "plain" -> <<WidthSpec(p)>>
      [] k = "other" -> <<TextSpec(IMAGE_DESCRIPTION, DescMacro)>> \o
                        <<OffsetsSpec(p, d, 1), LengthsSpec(p, 1)>>
      [] k = "label" -> <<TextSpec(IMAGE_DESCRIPTION, DescLabel)>> \o strips
      [] k = "crlf" -> <<TextSpec(IMAGE_DESCRIPTION, DescLabelCrLf)>> \o strips
      [] k = "oneline" -> <<TextSpec(IMAGE_DESCRIPTION, DescOneLine)>> \o strips
      [] k = "foreign" -> <<TextSpec(IMAGE_DESCRIPTION, DescForeign)>> \o strips
      [] k = "dupdesc" -> <<TextSpec(IMAGE_DESCRIPTION, DescLabel),
                            TextSpec(IMAGE_DESCRIPTION, DescForeign)>> \o strips
      [] k = "noterm" -> <<TextSpec(IMAGE_DESCRIPTION, DescNoTerm)>> \o strips
      [] k = "empty" -> <<TextSpec(IMAGE_DESCRIPTION, <<>>)>> \o strips
      [] k = "badtype" -> <<EntrySpec(IMAGE_DESCRIPTION, 7, 1, <<1>>)>> \o strips
      [] k = "numdesc" -> <<EntrySpec(IMAGE_DESCRIPTION, SHORT, 1,
                                      PackItem(p.prefix, "H", 1))>> \o strips
      [] k = "nostrips" -> <<TextSpec(IMAGE_DESCRIPTION, DescLabel), WidthSpec(p)>>
      [] k = "nolengths" -> <<TextSpec(IMAGE_DESCRIPTION, DescLabel), strips[1]>>
      [] k = "textstrips" -> <<TextSpec(IMAGE_DESCRIPTION, DescLabel),
                               TextSpec(STRIP_OFFSETS, <<49, NUL>>), strips[2]>>
      [] k = "badlengths" -> <<TextSpec(IMAGE_DESCRIPTION, DescLabel), strips[1],
                               EntrySpec(STRIP_BYTE_COUNTS, 7, 1, <<1>>)>>

\* The entries of directory d, by its kind.
EntrySpecs(p, d) ==
    SpecsOfKind(p, d, p.kinds[d], <<OffsetsSpec(p, d, p.nOff), LengthsSpec(p, p.nLen)>>)

\* A sequence given by a rule, as the tuple of its elements.
Tuple(s) == SubSeq(s, 1, Len(s))

SlotSize(bigtiff) == fmt_size(bigtiff, <<"Z">>)

DirSize(bigtiff, nEntries) ==
    fmt_size(bigtiff, <<"Y">>)
    + nEntries * fmt_size(bigtiff, <<"H", "H", "Z", "Z">>)
    + SlotSize(bigtiff)

\* The bytes a value takes in the out-of-line area: none when it fits its slot.
OolLen(bigtiff, s) == IF Len(s.payload) > SlotSize(bigtiff) THEN Len(s.payload) ELSE 0

\* One entry: tag, type, count, and the value or the offset of the value.
EntryBytes(p, s, oolOffset) ==
    PackItem(p.prefix, "H", s.tag) \o PackItem(p.prefix, "H", s.type)
    \o PackItem(p.prefix, ConvertChar(p.bigtiff, "Z"), s.count)
    \o (IF OolLen(p.bigtiff, s) = 0
        THEN s.payload \o [k \in 1..(SlotSize(p.bigtiff) - Len(s.payload)) |-> 0]
        ELSE PackItem(p.prefix, ConvertChar(p.bigtiff, "Z"), oolOffset))

\* One directory: entry count, entries, next-directory pointer.
DirBytes(p, specs, oolOffsets, next) ==
    PackItem(p.prefix, ConvertChar(p.bigtiff, "Y"), Len(specs))
    \o Concat([e \in 1..Len(specs) |-> EntryBytes(p, specs[e], oolOffsets[e])])
    \o PackItem(p.prefix, ConvertChar(p.bigtiff, "Z"), next)

HeaderBytes(p, first) ==
    (IF p.variant = "badmagic" THEN <<73, 77>>
     ELSE IF p.prefix = "<" THEN STR_II ELSE STR_MM)
    \o PackItem(p.prefix, "H",
                IF p.variant = "badversion" THEN 44
                ELSE IF p.bigtiff THEN VERSION_BIG ELSE VERSION_CLASSIC)
    \o (IF p.bigtiff
        THEN PackItem(p.prefix, "H", IF p.variant = "badbig" THEN 4 ELSE BIG_MAGIC2)
             \o PackItem(p.prefix, "H", 0)
        ELSE <<>>)
    \o PackItem(p.prefix, ConvertChar(p.bigtiff, "Z"), first)

\* Running sums: element k is the sum of the first k - 1 elements of s.
RECURSIVE Before(_, _)
Before(s, sum) ==
    IF s = <<>> THEN <<sum>> ELSE <<sum>> \o Before(Tail(s), sum + Head(s))

\* Where each out-of-line value of a directory lies, the first at base.
OolOffsets(bigtiff, specs, base) ==
    Before(Tuple([e \in 1..Len(specs) |-> OolLen(bigtiff, specs[e])]), base)

\* The out-of-line values of a directory, and how many bytes they take.
OolBytes(bigtiff, specs) ==
    Concat([e \in 1..Len(specs) |->
              IF OolLen(bigtiff, specs[e]) > 0 THEN specs[e].payload ELSE <<>>])

OolTotal(bigtiff, specs) == SumSeq([e \in 1..Len(specs) |-> OolLen(bigtiff, specs[e])])

\* The next-directory pointer of directory d: the last directory of a cyclic
\* file points back to the first.
NextOf(p, dirOffsets, d) ==
    IF d < Len(p.kinds) THEN dirOffsets[d + 1]
    ELSE IF p.variant = "cycle" THEN dirOffsets[1]
    ELSE 0

Whole(p, specs, dirOffsets, oolBases) ==
    HeaderBytes(p, IF specs = <<>> THEN 0 ELSE dirOffsets[1])
    \o [k \in 1..(Len(specs) * SliceSize) |-> 255]
    \o Concat([d \in 1..Len(specs) |->
                 DirBytes(p, specs[d], OolOffsets(p.bigtiff, specs[d], oolBases[d]),
                          NextOf(p, dirOffsets, d))])
    \o Concat([d \in 1..Len(specs) |-> OolBytes(p.bigtiff, specs[d])])

\* A truncated file ends inside its last directory, a headless one inside
\* its header.
Cut(p, dirOffsets, whole) ==
    IF p.variant = "truncated" THEN SubSeq(whole, 1, dirOffsets[Len(p.kinds)] + 3)
    ELSE IF p.variant = "headless" THEN SubSeq(whole, 1, 3)
    ELSE whole

Placed(p, specs, dirOffsets) ==
    Cut(p, dirOffsets,
        Whole(p, specs, dirOffsets,
              Before(Tuple([d \in 1..Len(specs) |-> OolTotal(p.bigtiff, specs[d])]),
                     dirOffsets[Len(specs) + 1])))

Specified(p, specs) ==
    Placed(p, specs,
           Before(Tuple([d \in 1..Len(specs) |-> DirSize(p.bigtiff, Len(specs[d]))]),
                  HeaderSize(p) + Len(specs) * SliceSize))

\* The file p describes.
BuildFile(p) == Specified(p, Tuple([d \in 1..Len(p.kinds) |-> EntrySpecs(p, d)]))

RECURSIVE SeqsUpTo(_, _)
SeqsUpTo(n, S) ==
    IF n = 0 THEN {<<>>}
    ELSE LET shorter == SeqsUpTo(n - 1, S)
         IN  shorter \cup {Append(q, x) : q \in {r \in shorter : Len(r) = n - 1}, x \in S}

ByteOrders == {"<", ">"}

Params(kinds, counts, variants) ==
    {[prefix |-> o, bigtiff |-> b, kinds |-> k, nOff |-> c[1], nLen |-> c[2],
      variant |-> v] :
        o \in ByteOrders, b \in BOOLEAN, k \in kinds, c \in counts, v \in variants}

\* Element counts of StripOffsets and StripByteCounts: equal, or one more
\* offset than lengths, or one more length than offsets.
StripCounts ==
    {c \in (0..MaxStrips) \X (0..MaxStrips) : c[1] - c[2] \in {-1, 0, 1}}

\* Well-formed files: every chain of other and label directories with one
\* strip of one byte, and the short chains that have a label with every
\* pair of element counts.
RegularParams ==
    Params(SeqsUpTo(MaxDirs, {"other", "label"}), {<<1, 1>>}, {"ok"})
    \cup Params({<<"label">>, <<"other", "label">>, <<"label", "other">>,
                 <<"label", "label">>}, StripCounts, {"ok"})

OddKinds ==
    {"plain", "crlf", "oneline", "foreign", "dupdesc", "noterm", "empty", "badtype",
     "numdesc", "nostrips", "nolengths", "textstrips", "badlengths"}

\* Files with one unusual directory, alone or before a label, and a label
\* between two directories without a description.
OddParams ==
    Params({<<k>> : k \in OddKinds} \cup {<<k, "label">> : k \in OddKinds}
           \cup {<<"plain", "label", "plain">>}, {<<1, 1>>}, {"ok"})

\* Files with a bad header, files cut short, files whose chain is a cycle.
BrokenParams ==
    Params({<<"label">>, <<"other", "label">>}, {<<1, 1>>},
           {"badmagic", "badversion", "badbig", "truncated", "headless"})
    \cup Params({<<"other", "label">>, <<"label", "other">>}, {<<1, 1>>}, {"cycle"})

InputFiles == {BuildFile(p) : p \in RegularParams \cup OddParams \cup BrokenParams}

(***************************************************************************)
(* The state.                                                              *)
(***************************************************************************)
\* The batch: sys.argv's paths, one input file each.
Paths == <<"a.svs", "b.svs">>

\* sys.getsizeof('') of the interpreter that runs the program (line 177): the
\* size of the header of a str object, 37 on a 64-bit CPython 2.7.
StrHeaderSize == 37

VARIABLES
    delete_entry,   \* args.remove_header, the unlink flag
    cur,            \* how many of Paths the batch loop has taken
    handles,        \* per path: "none", "open" or "closed"
    pc,             \* where the program is
    file,           \* the bytes of the current file
    file0,          \* its bytes when it was opened
    pos,            \* the handle's cursor
    fmt_prefix,     \* TiffFile._fmt_prefix
    bigtiff,        \* TiffFile._bigtiff
    directories,    \* TiffFile.directories
    di,             \* the directory the loop of delete_aperio_label is at
    offsets,        \* the matched directory's decoded StripOffsets
    lengths,        \* the matched directory's decoded StripByteCounts
    si,             \* the pair the wipe loop is at
    write_size,     \* delete_aperio_label's write_size
    outcome,        \* "none" while running, "done", or the failure raised
    written,        \* the file offsets written since the file was opened
    last            \* the value() call made last for this file

vars ==
    <<delete_entry, cur, handles, pc, file, file0, pos,
      fmt_prefix, bigtiff, directories, di, offsets, lengths, si, write_size,
      outcome, written, last>>

batch == <<delete_entry, cur, handles>>

locals ==
    <<file, file0, pos, fmt_prefix, bigtiff, directories, di, offsets, lengths,
      si, write_size, outcome, written, last>>

Init ==
    /\ delete_entry \in BOOLEAN
    /\ cur = 0
    /\ handles = [k \in 1..Len(Paths) |-> "none"]
    /\ pc = "main"
    /\ file = <<>>
    /\ file0 = <<>>
    /\ pos = 0
    /\ fmt_prefix = "<"
    /\ bigtiff = FALSE
    /\ directories = <<>>
    /\ di = 0
    /\ offsets = NoValue
    /\ lengths = NoValue
    /\ si = 0
    /\ write_size = 0
    /\ outcome = "none"
    /\ written = {}
    /\ last = NoCall

\* The frame of delete_aperio_label is gone: its variables hold what they
\* hold while no file is being redacted.
DropLocals ==
    /\ file' = <<>>
    /\ file0' = <<>>
    /\ pos' = 0
    /\ fmt_prefix' = "<"
    /\ bigtiff' = FALSE
    /\ directories' = <<>>
    /\ di' = 0
    /\ offsets' = NoValue
    /\ lengths' = NoValue
    /\ si' = 0
    /\ write_size' = 0
    /\ outcome' = "none"
    /\ written' = {}
    /\ last' = NoCall

\* sys.getsizeof of a str.
getsizeof(str) == StrHeaderSize + Len(str)

\* A faulty choice of the directory: the last of the chain.
Matched_last == directories[Len(directories)]

\* The directory delete_aperio_label matched: the loop variable directory
\* when the loop body goes past line 163.
Matched == directories[di]

\* The pairs of the wipe loop, line 174.
Pairs == zip(offsets.val, lengths.val)

(***************************************************************************)
(* __main__'s loop takes the next path (line 259) and delete_aperio_label  *)
(* opens it: write_size = 0 (line 149), file.__init__ (line 39), the       *)
(* header (lines 41-61).  A failure here is raised out of TiffFile(...),   *)
(* before the with statement holds the handle.                             *)
(***************************************************************************)
Open(f) ==
    /\ \E h \in {ReadHeader(f)} :
           /\ fmt_prefix' = h.prefix
           /\ bigtiff' = h.bigtiff
           /\ pos' = h.pos
           /\ outcome' = h.err
           /\ pc' = IF h.err = "none" THEN "walk" ELSE "raised"
    /\ cur' = cur + 1
    /\ handles' = [handles EXCEPT ![cur + 1] = "open"]
    /\ file' = f
    /\ file0' = f
    /\ directories' = <<>>
    /\ di' = 0
    /\ offsets' = NoValue
    /\ lengths' = NoValue
    /\ si' = 0
    /\ write_size' = 0
    /\ written' = {}
    /\ last' = NoCall
    /\ UNCHANGED delete_entry

(***************************************************************************)
(* One turn of the loop of TiffFile.__init__, lines 65-71.  The model      *)
(* keeps at most MaxDirs directory records: no input whose chain ends has  *)
(* more, and on a chain that does not end the loop goes on all the same.   *)
(***************************************************************************)
WalkStep ==
    /\ pc = "walk"
    /\ \E w \in {WalkOnce(file, pos, fmt_prefix, bigtiff)} :
           /\ pos' = w.pos
           /\ directories' = IF w.kind = "dir" /\ Len(directories) < MaxDirs
                             THEN Append(directories, w.dir)
                             ELSE directories
           /\ pc' = IF w.kind = "dir" THEN "walk"
                    ELSE IF w.kind = "end" THEN "scan"
                    ELSE "raised"
           /\ outcome' = IF w.kind = "fail" THEN "Truncated" ELSE "none"
           /\ di' = IF w.kind = "end" THEN 1 ELSE di
    /\ UNCHANGED <<batch, file, file0, fmt_prefix, bigtiff, offsets, lengths, si,
                   write_size, written, last>>

(***************************************************************************)
(* One turn of the loop of delete_aperio_label, lines 151-171, or its else *)
(* clause (line 189) when the directories are exhausted.                   *)
(***************************************************************************)
ScanStep ==
    /\ pc = "scan"
    /\ di <= Len(directories)
    /\ \E r \in {ScanDir(file, fmt_prefix, bigtiff, directories[di], pos)} :
           /\ pos' = r.pos
           /\ last' = IF r.last.called THEN r.last ELSE last
           /\ offsets' = r.offsets
           /\ lengths' = r.lengths
           /\ di' = IF r.res = "continue" THEN di + 1 ELSE di
           /\ si' = IF r.res = "match" THEN 1 ELSE si
           /\ outcome' = r.err
           /\ pc' = IF r.res = "continue" THEN "scan"
                    ELSE IF r.res = "match" THEN "wipe"
                    ELSE "exit_with"
    /\ UNCHANGED <<batch, file, file0, fmt_prefix, bigtiff, directories, write_size,
                   written>>

\* A faulty else clause: the loop's exhaustion is taken for success.
Exhausted_quietly ==
    /\ pc = "scan"
    /\ di > Len(directories)
    /\ outcome' = "done"
    /\ pc' = "exit_with"
    /\ UNCHANGED <<batch, file, file0, pos, fmt_prefix, bigtiff, directories, di,
                   offsets, lengths, si, write_size, written, last>>

Exhausted ==
    /\ pc = "scan"
    /\ di > Len(directories)
    /\ outcome' = "LabelNotFound"
    /\ pc' = "exit_with"
    /\ UNCHANGED <<batch, file, file0, pos, fmt_prefix, bigtiff, directories, di,
                   offsets, lengths, si, write_size, written, last>>

(***************************************************************************)
(* One turn of the wipe loop, lines 174-177.  A text value where numbers   *)
(* are expected makes fh.seek or '\0' * length a TypeError.                *)
(***************************************************************************)
WipeStep ==
    /\ pc = "wipe"
    /\ si <= Len(Pairs)
    /\ IF offsets.text \/ lengths.text
       THEN /\ outcome' = "TypeError"
            /\ pc' = "exit_with"
            /\ UNCHANGED <<file, pos, si, write_size, written>>
       ELSE \E offset \in {Pairs[si].offset}, zeros \in {Zeros(Pairs[si].length)} :
                /\ file' = FileWrite(file, offset, zeros)
                /\ pos' = offset + Len(zeros)
                /\ write_size' = write_size + getsizeof(zeros)
                /\ written' = written \cup (offset..(offset + Len(zeros) - 1))
                /\ si' = si + 1
                /\ UNCHANGED <<outcome, pc>>
    /\ UNCHANGED <<batch, file0, fmt_prefix, bigtiff, directories, di, offsets,
                   lengths, last>>

(***************************************************************************)
(* Lines 179-187 after the wipe loop: read the matched directory's next    *)
(* pointer, write it over the pointer that led to the directory when       *)
(* delete_entry is set, report write_size.                                 *)
(***************************************************************************)
UnlinkStep ==
    /\ pc = "wipe"
    /\ si > Len(Pairs)
    /\ \E r \in {read_fmt(file, Matched.out_pointer_offset, fmt_prefix, bigtiff, <<"Z">>)},
          slot \in {Matched.in_pointer_offset} :
           IF ~r.ok
           THEN /\ outcome' = "Truncated"
                /\ pos' = r.end
                /\ UNCHANGED <<file, written>>
           ELSE /\ outcome' = "done"
                /\ IF delete_entry
                   THEN /\ file' = write_fmt(file, slot, fmt_prefix, bigtiff, <<"Z">>,
                                             r.vals[1])
                        /\ pos' = slot + fmt_size(bigtiff, <<"Z">>)
                        /\ written' = written \cup
                                      (slot..(slot + fmt_size(bigtiff, <<"Z">>) - 1))
                   ELSE /\ pos' = slot
                        /\ UNCHANGED <<file, written>>
    /\ pc' = "exit_with"
    /\ UNCHANGED <<batch, file0, fmt_prefix, bigtiff, directories, di, offsets,
                   lengths, si, write_size, last>>

(***************************************************************************)
(* Leaving the with statement of line 150, by break or by an exception:    *)
(* file.__exit__ closes the handle.                                        *)
(***************************************************************************)
ExitWith ==
    /\ pc = "exit_with"
    /\ handles' = [handles EXCEPT ![cur] = "closed"]
    /\ pc' = IF outcome = "done" THEN "returned" ELSE "raised"
    /\ UNCHANGED <<delete_entry, cur, locals>>

\* delete_aperio_label returned: back to the loop of __main__, line 259.
Return ==
    /\ pc = "returned"
    /\ pc' = "main"
    /\ DropLocals
    /\ UNCHANGED batch

\* The except clause of __main__, lines 263-265, and back to the loop.  (The
\* exit status it records is not part of the model.)
Except ==
    /\ pc = "raised"
    /\ pc' = "main"
    /\ DropLocals
    /\ UNCHANGED batch

(***************************************************************************)
(* A TiffFile whose __init__ raised is closed by nothing in the program:   *)
(* the interpreter closes it when it reclaims the object, which is when    *)
(* the traceback that holds it is dropped, at a time the program does not  *)
(* control.                                                                *)
(***************************************************************************)
Reclaim(k) ==
    /\ pc # "exited"
    /\ handles[k] = "open"
    /\ k < cur \/ (k = cur /\ pc \in {"raised", "main"})
    /\ handles' = [handles EXCEPT ![k] = "closed"]
    /\ UNCHANGED <<delete_entry, cur, pc, locals>>

\* sys.exit(exit_code), line 266.
Exit ==
    /\ pc = "main"
    /\ cur = Len(Paths)
    /\ pc' = "exited"
    /\ UNCHANGED <<batch, locals>>

\* The next path of the batch holds any of the input files.
OpenNext ==
    /\ pc = "main"
    /\ cur < Len(Paths)
    /\ \E f \in InputFiles : Open(f)

Next ==
    \/ OpenNext
    \/ WalkStep
    \/ ScanStep
    \/ Exhausted
    \/ WipeStep
    \/ UnlinkStep
    \/ ExitWith
    \/ Return
    \/ Except
    \/ \E k \in 1..Len(Paths) : Reclaim(k)
    \/ Exit

Spec == Init /\ [][Next]_vars

\* The steps of one file's redaction, from the walk to the return.
Run ==
    \/ WalkStep
    \/ ScanStep
    \/ Exhausted
    \/ WipeStep
    \/ UnlinkStep
    \/ ExitWith
    \/ Return
    \/ Except

\* The interpreter runs the program on: a redaction that can take a step
\* takes it.
FairSpec == Spec /\ WF_vars(Run)

(***************************************************************************)
(* What the properties below speak of.                                     *)
(***************************************************************************)
\* The failures the redaction raises by name.
NamedFailures ==
    {"FormatError", "Truncated", "UnsupportedValueType", "MalformedString",
     "MissingStripInfo", "LabelNotFound"}

\* The offsets of the n bytes from offset a.
Range(a, n) == a..(a + n - 1)

\* The offsets of the pointer slot at offset a.
SlotRange(a) == Range(a, fmt_size(bigtiff, <<"Z">>))

\* The offsets of directory d's record: count, entries, next-directory pointer.
Extent(d) == d.offset..(d.out_pointer_offset + fmt_size(bigtiff, <<"Z">>) - 1)

\* Whether offset b holds the same byte as when the file was opened.
SameByte(b) == b < Len(file) /\ file[b + 1] = file0[b + 1]

\* The pointer stored at offset a of file f.
PointerAt(f, a) == read_fmt(f, a, fmt_prefix, bigtiff, <<"Z">>).vals[1]

\* What the loop body makes of directory k of the chain, in the file as it
\* was opened.
Scanned(k) == ScanDir(file0, fmt_prefix, bigtiff, directories[k], 0)

\* Directory k lacks a description or its description fails the heuristic.
NonMatching(k) == Scanned(k).res = "continue"

\* Directory k passes the heuristic and has both strip entries.
Matching(k) == Scanned(k).res = "match"

\* The offsets of the strips a result of the loop body names, paired by
\* position.
StripRanges(r) ==
    UNION {Range(r.offsets.val[i], r.lengths.val[i]) :
             i \in 1..Min(Len(r.offsets.val), Len(r.lengths.val))}

\* The directories the file as it was opened chains from its header.
Chain(f) == WalkChain(f, ReadHeader(file0).pos, fmt_prefix, bigtiff, MaxDirs + 1)

\* A directory as a walk shows it, but for the slot that led to it.
Shown(d) == [offset |-> d.offset, entries |-> d.entries,
             out_pointer_offset |-> d.out_pointer_offset]

Without(s, i) == SubSeq(s, 1, i - 1) \o SubSeq(s, i + 1, Len(s))

(***************************************************************************)
(* C1.  On every successful redaction the reported total of bytes wiped    *)
(* (write_size, printed at line 185) equals the sum of the lengths of the  *)
(* strip pairs zeroed: 20 for one strip of length 20.                      *)
(* The code adds sys.getsizeof('\0' * length) for each pair, which counts  *)
(* the header of the str object too, so the property fails as soon as one  *)
(* pair is wiped.                                                          *)
(***************************************************************************)
C1_ReportedTotalIsSumOfLengths ==
    outcome = "done" =>
        write_size = SumSeq([i \in 1..Min(Len(offsets.val), Len(lengths.val)) |->
                               lengths.val[i]])

(***************************************************************************)
(* C2.  After a successful redaction of a matched directory with strip     *)
(* offsets O and strip byte counts L, for every position i up to           *)
(* min(len(O), len(L)) every byte of [O[i], O[i] + L[i]) is zero; pairs    *)
(* are formed by position and the elements of the longer sequence beyond   *)
(* the shorter one's length cause no write: the bytes written are those of *)
(* the paired ranges and, with the unlink flag, the pointer slot.          *)
(***************************************************************************)
C2_PairedRangesZeroed ==
    outcome = "done" =>
        /\ \A i \in 1..Min(Len(offsets.val), Len(lengths.val)) :
              \A b \in Range(offsets.val[i], lengths.val[i]) :
                  b < Len(file) /\ file[b + 1] = NUL
        /\ written =
              StripRanges([offsets |-> offsets, lengths |-> lengths])
              \cup (IF delete_entry THEN SlotRange(directories[di].in_pointer_offset)
                    ELSE {})

\* A redaction that succeeded with more offsets than lengths, or more
\* lengths than offsets, and at least one pair.
C2_Witness ==
    /\ outcome = "done"
    /\ Len(offsets.val) # Len(lengths.val)
    /\ Min(Len(offsets.val), Len(lengths.val)) >= 1

(***************************************************************************)
(* C3.  With the unlink flag set, after a successful redaction a walk of   *)
(* the chain from the header yields the original directories without the   *)
(* matched one, those before and after it in their original order, and     *)
(* the pointer stored at the matched directory's in_pointer_offset is the  *)
(* pointer that was stored at its out_pointer_offset when the file was     *)
(* opened.                                                                 *)
(***************************************************************************)
C3_UnlinkSplicesChain ==
    (outcome = "done" /\ delete_entry) =>
        /\ \E chain \in {Chain(file)} :
              [k \in 1..Len(chain) |-> Shown(chain[k])]
                 = Without([k \in 1..Len(directories) |-> Shown(directories[k])], di)
        /\ PointerAt(file, directories[di].in_pointer_offset)
              = PointerAt(file0, directories[di].out_pointer_offset)

\* An unlinking redaction that succeeded on the second of three directories.
C3_Witness ==
    /\ outcome = "done"
    /\ delete_entry
    /\ di = 2
    /\ Len(directories) = 3

(***************************************************************************)
(* C4.  As stated: in every run, with or without unlink, every directory   *)
(* that lacks a description or whose description fails the heuristic is    *)
(* left completely unmodified: none of the bytes of its record, its        *)
(* next-directory pointer slot included, differ after the run.             *)
(* This fails: the unlink overwrites the pointer that led to the matched   *)
(* directory, and when the matched directory is not the first that         *)
(* pointer is the next-directory pointer slot of the directory before it.  *)
(***************************************************************************)
C4_NonMatchingUnmodified ==
    file # file0 =>
        \A k \in 1..Len(directories) :
            NonMatching(k) => \A b \in Extent(directories[k]) : SameByte(b)

(***************************************************************************)
(* C4, amended.  Every directory that lacks a description or whose         *)
(* description fails the heuristic keeps every byte of its record, except  *)
(* that a successful run with the unlink flag set overwrites the           *)
(* next-directory pointer slot of the directory that led to the matched    *)
(* one.                                                                    *)
(***************************************************************************)
C4_NonMatchingUnmodifiedButLink ==
    file # file0 =>
        \A k \in 1..Len(directories) :
            NonMatching(k) =>
                \A b \in Extent(directories[k]) :
                    \/ SameByte(b)
                    \/ /\ delete_entry
                       /\ outcome = "done"
                       /\ directories[k].out_pointer_offset
                             = directories[di].in_pointer_offset
                       /\ b \in SlotRange(directories[k].out_pointer_offset)

\* An unlinking redaction that succeeded on a directory reached from a
\* non-matching one, whose pointer slot no longer holds what it held.
C4_Witness ==
    /\ outcome = "done"
    /\ delete_entry
    /\ di >= 2
    /\ NonMatching(di - 1)
    /\ \E b \in SlotRange(directories[di - 1].out_pointer_offset) : ~SameByte(b)

(***************************************************************************)
(* C5.  If the chain is exhausted without any directory matching the       *)
(* heuristic, the redaction fails with LabelNotFound and the file is byte  *)
(* for byte what it was, for both values of the unlink flag.               *)
(***************************************************************************)
C5_NoMatchFailsUnchanged ==
    /\ (pc = "exit_with" /\ \A k \in 1..Len(directories) : NonMatching(k)) =>
          outcome = "LabelNotFound"
    /\ outcome = "LabelNotFound" =>
          /\ \A k \in 1..Len(directories) : NonMatching(k)
          /\ file = file0
          /\ written = {}

\* A run with the unlink flag set that exhausted a chain of two directories.
C5_Witness ==
    /\ outcome = "LabelNotFound"
    /\ delete_entry
    /\ Len(directories) = 2

(***************************************************************************)
(* C6.  For every file of a batch, the handle opened for it is closed on   *)
(* every exit path of its redaction, success or failure, a failure while   *)
(* the header or the chain is parsed during opening included, before the   *)
(* next file is attempted.                                                 *)
(* This fails: TiffFile.__init__ raises before the with statement of line  *)
(* 150 holds the handle, so nothing in the program closes it.              *)
(***************************************************************************)
C6_HandleClosedBeforeNextFile ==
    \A k \in 1..Len(Paths) :
        (k < cur \/ (k = cur /\ pc \in {"main", "exited"})) => handles[k] = "closed"

(***************************************************************************)
(* C7.  Decoding an ASCII entry whose decoded bytes do not end with the    *)
(* null byte, for every count, the empty sequence of count 0 included,     *)
(* fails with MalformedString: it returns no text and fails with no other  *)
(* error.                                                                  *)
(* This fails for count 0: items[-1] of the empty tuple is an IndexError.  *)
(***************************************************************************)
C7_UnterminatedIsMalformedString ==
    (/\ last.called
     /\ last.type = ASCII
     /\ last.err # "Truncated"
     /\ (last.items = <<>> \/ last.items[Len(last.items)] # NUL)) =>
        last.err = "MalformedString"

(***************************************************************************)
(* C8.  When more than one directory matches the heuristic, the redaction  *)
(* acts on the first in chain order only: every directory before the one   *)
(* acted on fails the heuristic, and no strip range and no pointer slot of *)
(* a later matching directory is ever written.                             *)
(***************************************************************************)
C8_OnlyFirstMatchWritten ==
    written # {} =>
        /\ \A k \in 1..(di - 1) : NonMatching(k)
        /\ \A k \in (di + 1)..Len(directories) :
              \E r \in {Scanned(k)} :
                  r.res = "match" =>
                      written \cap (StripRanges(r)
                                    \cup SlotRange(directories[k].in_pointer_offset)
                                    \cup SlotRange(directories[k].out_pointer_offset))
                         = {}

\* An unlinking redaction that succeeded on the first of two matching
\* directories, each with strips.
C8_Witness ==
    /\ outcome = "done"
    /\ delete_entry
    /\ di < Len(directories)
    /\ Matching(Len(directories))
    /\ StripRanges(Scanned(Len(directories))) # {}
    /\ written # {}

(***************************************************************************)
(* C9.  Every write to the file happens after the header, the whole chain, *)
(* the descriptions up to the match and both strip entries of the matched  *)
(* directory have been read and decoded; so whenever the redaction fails   *)
(* with a header or format error, an unsupported value type, a malformed   *)
(* string, missing strip info or label not found, no byte of the file has  *)
(* been written.                                                           *)
(***************************************************************************)
C9_WritesFollowAllDecoding ==
    /\ written # {} =>
          /\ pc \in {"wipe", "exit_with", "returned"}
          /\ directories = Chain(file0)
          /\ \A k \in 1..(di - 1) : NonMatching(k)
          /\ \E r \in {Scanned(di)} :
                /\ r.res = "match"
                /\ offsets = r.offsets
                /\ lengths = r.lengths
          /\ last.tag = STRIP_BYTE_COUNTS
          /\ last.err = "none"
    /\ outcome \in NamedFailures => (written = {} /\ file = file0)

\* An unlinking redaction of a matching directory that lacks a strip entry,
\* in a chain of two.
C9_Witness ==
    /\ outcome = "MissingStripInfo"
    /\ pc = "exit_with"
    /\ Len(directories) = 2
    /\ delete_entry

(***************************************************************************)
(* C10.  For every input file, one whose next-directory pointers lead back *)
(* to a directory already visited included, the walk of the chain ends and *)
(* the run ends in success or in a failure: it never walks forever.        *)
(* This fails: the loop of lines 65-71 stops at a zero pointer or a short  *)
(* read only, and a cyclic chain offers neither.                           *)
(***************************************************************************)
C10_WalkEnds == (pc = "walk") ~> (outcome # "none")

====
